---- MODULE Spec2Model ----
(***************************************************************************)
(* RosterOptimizer (src/utils/optimizer.py): the optimize_roster calls on   *)
(* one instance, each followed step by step through its phases, and the    *)
(* roster metrics.                                                         *)
(*                                                                         *)
(* Conventions                                                             *)
(*  - Python's None is the record None; a DataFrame is a record holding    *)
(*    its rows ([name |-> <<...>>] for the staff table, [rows |-> <<...>>] *)
(*    for a roster), so that "is None" and ".empty" stay different tests.  *)
(*  - A date string is [fmt, day]: fmt = "ymd" for a well-formed           *)
(*    'YYYY-MM-DD' string that names the day `day` days after today, and   *)
(*    fmt = "bad" for a string strptime rejects.                           *)
(*  - Staff, day and shift indices are 0-based as in the code; TLA+        *)
(*    sequences are 1-based, so row i of the staff table is name[i + 1].   *)
(*  - `if leave_requests:` and `if staff_preferences:` treat None and the  *)
(*    empty container alike; both are the empty sequence here.             *)
(*  - ', '.join(staff_on_shift) is kept as the sequence of joined names;   *)
(*    no staff name of the model holds a comma.                            *)
(*  - A float is the exact fraction [num, den] of the integers it is       *)
(*    computed from; the literal 0 of the code is the integer 0.           *)
(***************************************************************************)
EXTENDS Integers, Sequences, FiniteSets, TLC

VARIABLES
    pc,            \* position inside optimize_roster
    args,          \* the arguments of the call
    model,         \* self.model
    solver,        \* self.solver
    last_error,    \* self.last_error
    debug_info,    \* self.debug_info
    staff_leaves,  \* local staff_leaves: staff index -> set of day offsets
    ret,           \* the returned (roster, success) pair, None before the return
    history,       \* the calls that returned earlier on this instance, oldest first
    roster_df,     \* the argument of the last calculate_roster_metrics call
    metrics        \* what that call returned, None before the first one

vars ==
    <<pc, args, model, solver, last_error, debug_info, staff_leaves, ret, history,
      roster_df, metrics>>

None == [none |-> TRUE]

(***************************************************************************)
(* Bounds of the model.                                                    *)
(***************************************************************************)
MaxStaff == 2
MaxDays == 2
MaxShifts == 3
MaxMinStaff == 2
MaxWeekCap == 2
MaxCells == 8
MaxCalls == 2

Names == {"A", "B"}

(***************************************************************************)
(* Small helpers.                                                          *)
(***************************************************************************)
Range(n) == [i \in 1..n |-> i - 1]

Min(a, b) == IF a <= b THEN a ELSE b

RECURSIVE SumSeq(_)
SumSeq(s) == IF s = <<>> THEN 0 ELSE Head(s) + SumSeq(Tail(s))

SeqsUpTo(S, n) == UNION {[1..k -> S] : k \in 0..n}

(***************************************************************************)
(* __init__ : lines 8-17.                                                  *)
(***************************************************************************)
shift_mapping(label) ==
    CASE label = "Morning" -> 0
      [] label = "Evening" -> 1
      [] label = "Night"   -> 2

ShiftLabels == {"Morning", "Evening", "Night"}

Init ==
    /\ pc = "idle"
    /\ args = None
    /\ model = None
    /\ solver = None
    /\ last_error = None
    /\ debug_info = <<>>
    /\ staff_leaves = <<>>
    /\ ret = None
    /\ history = <<>>
    /\ roster_df = None
    /\ metrics = None

(***************************************************************************)
(* _log_debug : lines 19-22.                                               *)
(***************************************************************************)
log_debug(trail, message) == Append(trail, message)

(***************************************************************************)
(* get_last_error : lines 24-28.  An error message is a record and never   *)
(* the empty string, so `not self.last_error` is "last_error is None".     *)
(* The joined trail is kept as the sequence of its entries.                *)
(***************************************************************************)
UnknownError == [msg |-> "Unknown error occurred"]

TrailReport(trail) ==
    [msg |-> "Optimization failed with the following issues", issues |-> trail]

\* mutant: the trail is reported whenever there is one
get_last_errorTrailFirst(error, trail) ==
    IF trail # <<>> THEN TrailReport(trail)
    ELSE IF error # None THEN error ELSE UnknownError

get_last_error(error, trail) ==
    IF error = None /\ trail # <<>> THEN TrailReport(trail)
    ELSE IF error # None THEN error ELSE UnknownError

(***************************************************************************)
(* The top-level exception handler of optimize_roster : lines 269-272.     *)
(***************************************************************************)
Failure == [roster |-> None, success |-> FALSE]

OptimizationError(e) == [msg |-> "Optimization error", detail |-> e]

\* mutant: the handler returns the failure but leaves last_error unset
RaiseWithoutError(e) ==
    /\ last_error' = last_error
    /\ debug_info' = log_debug(debug_info, <<"Exception details", e>>)
    /\ ret' = Failure
    /\ pc' = "done"

Raise(e) ==
    /\ last_error' = OptimizationError(e)
    /\ debug_info' = log_debug(debug_info, <<"Exception details", e>>)
    /\ ret' = Failure
    /\ pc' = "done"

(***************************************************************************)
(* Entry of optimize_roster : lines 43-46.                                 *)
(***************************************************************************)
CallWith(Inputs) ==
    /\ pc = "idle"
    /\ \E a \in Inputs : args' = a
    /\ debug_info' = <<>>
    /\ last_error' = None
    /\ pc' = "leaves"
    /\ UNCHANGED <<model, solver, staff_leaves, ret, history, roster_df, metrics>>

\* the call after one that has returned: the instance keeps model and solver,
\* lines 45-46 reset the trail and the error, line 49 starts a new leave table
ReturnedCall ==
    [args |-> args, ret |-> ret, last_error |-> last_error,
     debug_info |-> debug_info, model |-> model, solver |-> solver]

\* mutant: the model and the solver of the previous call are dropped at entry
CallAgainCleared(Inputs) ==
    /\ pc = "done"
    /\ Len(history) + 1 < MaxCalls
    /\ history' = Append(history, ReturnedCall)
    /\ \E a \in Inputs : args' = a
    /\ debug_info' = <<>>
    /\ last_error' = None
    /\ staff_leaves' = <<>>
    /\ ret' = None
    /\ pc' = "leaves"
    /\ model' = None
    /\ solver' = None
    /\ UNCHANGED <<roster_df, metrics>>

\* mutant: the error and the trail of the previous call are kept at entry
CallAgainUncleared(Inputs) ==
    /\ pc = "done"
    /\ Len(history) + 1 < MaxCalls
    /\ history' = Append(history, ReturnedCall)
    /\ \E a \in Inputs : args' = a
    /\ staff_leaves' = <<>>
    /\ ret' = None
    /\ pc' = "leaves"
    /\ UNCHANGED <<debug_info, last_error, model, solver, roster_df, metrics>>

CallAgain(Inputs) ==
    /\ pc = "done"
    /\ Len(history) + 1 < MaxCalls
    /\ history' = Append(history, ReturnedCall)
    /\ \E a \in Inputs : args' = a
    /\ debug_info' = <<>>
    /\ last_error' = None
    /\ staff_leaves' = <<>>
    /\ ret' = None
    /\ pc' = "leaves"
    /\ UNCHANGED <<model, solver, roster_df, metrics>>

(***************************************************************************)
(* Leave processing : lines 48-68.                                         *)
(***************************************************************************)
Date(k) == [fmt |-> "ymd", day |-> k]

BadDate == [fmt |-> "bad", day |-> 0]

\* datetime.strptime(s, '%Y-%m-%d') raises ValueError on a malformed string
strptime_raises(d) == d.fmt # "ymd"

\* (strptime(s) - today at midnight).days
day_num(d) == d.day

\* mutant: a name that matches no row is taken for the first row
MatchingRowsOrFirst(df, staff_name) ==
    IF \A i \in 0..(Len(df.name) - 1) : df.name[i + 1] # staff_name
    THEN {0}
    ELSE {i \in 0..(Len(df.name) - 1) : df.name[i + 1] = staff_name}

\* staff_data[staff_data['name'] == staff_name].index[0] : line 58
MatchingRows(df, staff_name) ==
    {i \in 0..(Len(df.name) - 1) : df.name[i + 1] = staff_name}

StaffIndexRaises(df, staff_name) ==
    IF df = None THEN "TypeError"
    ELSE IF MatchingRows(df, staff_name) = {} THEN "IndexError"
    ELSE ""

StaffIndex(df, staff_name) ==
    CHOOSE i \in MatchingRows(df, staff_name) :
        \A j \in MatchingRows(df, staff_name) : i <= j

\* the while loop of lines 61-68: the day offsets of the range inside the horizon
LeaveDays(request, num_days) ==
    {d \in day_num(request.start_date)..day_num(request.end_date) :
        0 <= d /\ d < num_days}

AddLeave(leaves, idx, days) ==
    IF days = {} THEN leaves
    ELSE [i \in DOMAIN leaves \cup {idx} |->
            (IF i \in DOMAIN leaves THEN leaves[i] ELSE {})
            \cup (IF i = idx THEN days ELSE {})]

\* mutant: the status of a request is not looked at
HonoredAlways(request) == TRUE

\* line 52
Honored(request) == request.status = "Approved"

RequestRaises(a, request) ==
    IF ~Honored(request) THEN ""
    ELSE IF strptime_raises(request.start_date) \/ strptime_raises(request.end_date)
         THEN "ValueError"
    ELSE StaffIndexRaises(a.staff_data, request.staff_member)

\* the for loop of lines 51-68 from request k on; raised = "" when no exception
RECURSIVE ProcessRequests(_, _, _)
ProcessRequests(a, k, leaves) ==
    IF k > Len(a.leave_requests) THEN [raised |-> "", leaves |-> leaves]
    ELSE LET request == a.leave_requests[k] IN
         IF RequestRaises(a, request) # ""
         THEN [raised |-> RequestRaises(a, request), leaves |-> leaves]
         ELSE IF Honored(request)
         THEN ProcessRequests(a, k + 1,
                  AddLeave(leaves,
                           StaffIndex(a.staff_data, request.staff_member),
                           LeaveDays(request, a.num_days)))
         ELSE ProcessRequests(a, k + 1, leaves)

IsOnLeave(leaves, staff, day) == staff \in DOMAIN leaves /\ day \in leaves[staff]

ProcessLeaves ==
    /\ pc = "leaves"
    /\ LET r == ProcessRequests(args, 1, <<>>) IN
        IF r.raised # ""
        THEN /\ Raise(r.raised)
             /\ UNCHANGED <<args, model, solver, staff_leaves, history, roster_df, metrics>>
        ELSE /\ staff_leaves' = r.leaves
             /\ pc' = "validate"
             /\ UNCHANGED <<args, model, solver, last_error, debug_info, ret, history, roster_df, metrics>>

(***************************************************************************)
(* Input validation : lines 70-87.                                         *)
(***************************************************************************)
ValidationError(a) ==
    IF a.staff_data = None \/ Len(a.staff_data.name) = 0
        THEN "No staff data provided"
    ELSE IF a.num_days <= 0 THEN "Number of days must be positive"
    ELSE IF a.shifts_per_day <= 0 THEN "Shifts per day must be positive"
    ELSE IF a.min_staff_per_shift <= 0 THEN "Minimum staff per shift must be positive"
    ELSE IF a.max_shifts_per_week <= 0 THEN "Maximum shifts per week must be positive"
    ELSE ""

Validate ==
    /\ pc = "validate"
    /\ IF ValidationError(args) # ""
       THEN /\ last_error' = [msg |-> ValidationError(args)]
            /\ ret' = Failure
            /\ pc' = "done"
       ELSE /\ pc' = "capacity"
            /\ UNCHANGED <<last_error, ret>>
    /\ UNCHANGED <<args, model, solver, debug_info, staff_leaves, history, roster_df, metrics>>

(***************************************************************************)
(* Capacity pre-check : lines 89-117.                                      *)
(***************************************************************************)
DaysPerWeek == 7

num_staff(a) == Len(a.staff_data.name)

total_shifts(a) == a.num_days * a.shifts_per_day

total_slots_needed(a) == total_shifts(a) * a.min_staff_per_shift

\* mutant: whole weeks only, the last shorter week dropped
weeks_in_periodFloor(a) == a.num_days \div DaysPerWeek

weeks_in_period(a) == (a.num_days + 6) \div DaysPerWeek

max_available_slots(a) == num_staff(a) * a.max_shifts_per_week * weeks_in_period(a)

\* mutant: the comparison of line 103 made non-strict
CapacityExceededOrEqual(a) == total_slots_needed(a) >= max_available_slots(a)

CapacityExceeded(a) == total_slots_needed(a) > max_available_slots(a)

\* the "need at least N" of line 113
SuggestedStaff(a) == (total_slots_needed(a) \div a.max_shifts_per_week) + 1

CapacityError(a) ==
    [msg |-> "Not enough staff capacity",
     need |-> total_slots_needed(a),
     have |-> max_available_slots(a),
     staff |-> num_staff(a),
     days |-> a.num_days,
     shifts_per_day |-> a.shifts_per_day,
     min_staff_per_shift |-> a.min_staff_per_shift,
     max_shifts_per_week |-> a.max_shifts_per_week,
     suggestions |-> <<<<"Increase staff members", SuggestedStaff(a)>>,
                       <<"Reduce min staff per shift", a.min_staff_per_shift>>,
                       <<"Increase max shifts per week", a.max_shifts_per_week>>>>]

CapacityLog(a) ==
    <<<<"Total staff members", num_staff(a)>>,
      <<"Total shifts needed", total_shifts(a)>>,
      <<"Total staff slots needed", total_slots_needed(a)>>,
      <<"Maximum available staff slots", max_available_slots(a)>>,
      <<"Weeks in period", weeks_in_period(a)>>>>

Capacity ==
    /\ pc = "capacity"
    /\ debug_info' = debug_info \o CapacityLog(args)
    /\ IF CapacityExceeded(args)
       THEN /\ last_error' = CapacityError(args)
            /\ ret' = Failure
            /\ pc' = "done"
       ELSE /\ pc' = "build"
            /\ UNCHANGED <<last_error, ret>>
    /\ UNCHANGED <<args, model, solver, staff_leaves, history, roster_df, metrics>>

(***************************************************************************)
(* Model construction : lines 119-211.                                     *)
(*                                                                         *)
(* A constraint is a record                                                *)
(*   [name, kind, vars, slack_hi, rhs]                                     *)
(* over the boolean shift variables `vars` and one slack variable of its   *)
(* own with domain 0..slack_hi (slack_hi = 0: no slack variable):          *)
(*   kind "eq"  : sum(vars) = rhs                                          *)
(*   kind "ge"  : sum(vars) + slack >= rhs                                 *)
(*   kind "le"  : sum(vars) <= rhs + slack                                 *)
(*   kind "imp" : slack = 1  =>  sum(vars) = rhs   (OnlyEnforceIf)         *)
(* An objective term is [slack, coeff]: coeff times the slack variable of  *)
(* the constraint called `slack`.                                          *)
(***************************************************************************)
UnderstaffPenalty == 1000
WeekPenalty == 500
RestPenalty == 750
PreferencePenalty == 10
\* mutant: one more extra shift allowed per week
WeekSlackMaxPlusOne == 3 + 1
WeekSlackMax == 3

Staffs(a) == 0..(num_staff(a) - 1)
Days(a) == 0..(a.num_days - 1)
Shifts(a) == 0..(a.shifts_per_day - 1)

\* the keys of the dict `shifts` : lines 128-137
ShiftKeys(a) == Staffs(a) \X Days(a) \X Shifts(a)

\* lines 139-140
LeaveConstraints(a, leaves) ==
    {[name |-> <<"leave", k[1], k[2], k[3]>>, kind |-> "eq", vars |-> {k},
      slack_hi |-> 0, rhs |-> 0] :
        k \in {c \in ShiftKeys(a) : IsOnLeave(leaves, c[1], c[2])}}

\* mutant: one staff member fewer asked for on every shift
MinStaffConstraintsOneLess(a) ==
    {[name |-> <<"min_staff_slack", day, shift>>, kind |-> "ge",
      vars |-> {<<staff, day, shift>> : staff \in Staffs(a)},
      slack_hi |-> a.min_staff_per_shift, rhs |-> a.min_staff_per_shift - 1] :
        day \in Days(a), shift \in Shifts(a)}

\* mutant: the coverage slack stops one short of min_staff_per_shift
MinStaffConstraintsShortSlack(a) ==
    {[name |-> <<"min_staff_slack", day, shift>>, kind |-> "ge",
      vars |-> {<<staff, day, shift>> : staff \in Staffs(a)},
      slack_hi |-> a.min_staff_per_shift - 1, rhs |-> a.min_staff_per_shift] :
        day \in Days(a), shift \in Shifts(a)}

\* lines 146-155
MinStaffConstraints(a) ==
    {[name |-> <<"min_staff_slack", day, shift>>, kind |-> "ge",
      vars |-> {<<staff, day, shift>> : staff \in Staffs(a)},
      slack_hi |-> a.min_staff_per_shift, rhs |-> a.min_staff_per_shift] :
        day \in Days(a), shift \in Shifts(a)}

\* mutant: two shifts a day allowed
DailyConstraintsTwo(a) ==
    {[name |-> <<"daily", staff, day>>, kind |-> "le",
      vars |-> {<<staff, day, shift>> : shift \in Shifts(a)},
      slack_hi |-> 0, rhs |-> 2] :
        staff \in Staffs(a), day \in Days(a)}

\* lines 160-164
DailyConstraints(a) ==
    {[name |-> <<"daily", staff, day>>, kind |-> "le",
      vars |-> {<<staff, day, shift>> : shift \in Shifts(a)},
      slack_hi |-> 0, rhs |-> 1] :
        staff \in Staffs(a), day \in Days(a)}

\* lines 167-173
WeekDays(a, week) ==
    (week * DaysPerWeek)..(Min((week + 1) * DaysPerWeek, a.num_days) - 1)

\* lines 167-178
WeekConstraints(a) ==
    {[name |-> <<"week_slack", staff, week>>, kind |-> "le",
      vars |-> {<<staff, day, shift>> : day \in WeekDays(a, week), shift \in Shifts(a)},
      slack_hi |-> WeekSlackMax, rhs |-> a.max_shifts_per_week] :
        staff \in Staffs(a), week \in 0..(weeks_in_period(a) - 1)}

\* mutant: the rest period without a slack
RestConstraintsHard(a) ==
    {[name |-> <<"rest_slack", staff, day>>, kind |-> "le",
      vars |-> {<<staff, day, 1>>, <<staff, day, 2>>, <<staff, day + 1, 0>>},
      slack_hi |-> 0, rhs |-> 1] :
        <<staff, day>> \in
            {p \in Staffs(a) \X (0..(a.num_days - 2)) :
                /\ <<p[1], p[2], 1>> \in ShiftKeys(a)
                /\ <<p[1], p[2], 2>> \in ShiftKeys(a)
                /\ <<p[1], p[2] + 1, 0>> \in ShiftKeys(a)}}

\* lines 181-191: shifts.get(...) is None for a key that is not in the dict
RestConstraints(a) ==
    {[name |-> <<"rest_slack", staff, day>>, kind |-> "le",
      vars |-> {<<staff, day, 1>>, <<staff, day, 2>>, <<staff, day + 1, 0>>},
      slack_hi |-> 1, rhs |-> 1] :
        <<staff, day>> \in
            {p \in Staffs(a) \X (0..(a.num_days - 2)) :
                /\ <<p[1], p[2], 1>> \in ShiftKeys(a)
                /\ <<p[1], p[2], 2>> \in ShiftKeys(a)
                /\ <<p[1], p[2] + 1, 0>> \in ShiftKeys(a)}}

\* line 196-198: the entries of staff_preferences that are looked at
PrefApplies(a, entry) ==
    /\ 0 <= entry.staff_id /\ entry.staff_id < num_staff(a)
    /\ entry.preferred_shift \in ShiftLabels

\* line 202: shifts[(staff_id, day, shift_num)] raises KeyError for a missing key
PrefRaises(a, entry) ==
    /\ PrefApplies(a, entry)
    /\ \E day \in Days(a) :
          <<entry.staff_id, day, shift_mapping(entry.preferred_shift)>> \notin ShiftKeys(a)

\* mutant: the preferred shift is demanded on every day
PrefConstraintsOfHard(a, entry) ==
    IF PrefApplies(a, entry)
    THEN {[name |-> <<"pref", entry.staff_id, day>>, kind |-> "eq",
           vars |-> {<<entry.staff_id, day, shift_mapping(entry.preferred_shift)>>},
           slack_hi |-> 0, rhs |-> 1] : day \in Days(a)}
    ELSE {}

\* lines 200-203 for one entry
PrefConstraintsOf(a, entry) ==
    IF PrefApplies(a, entry)
    THEN {[name |-> <<"pref", entry.staff_id, day>>, kind |-> "imp",
           vars |-> {<<entry.staff_id, day, shift_mapping(entry.preferred_shift)>>},
           slack_hi |-> 1, rhs |-> 1] : day \in Days(a)}
    ELSE {}

\* lines 194-203 from entry k on; raised = "" when no exception
RECURSIVE PrefConstraints(_, _, _)
PrefConstraints(a, k, acc) ==
    IF k > Len(a.staff_preferences) THEN [raised |-> "", constraints |-> acc]
    ELSE IF PrefRaises(a, a.staff_preferences[k])
         THEN [raised |-> "KeyError", constraints |-> acc]
    ELSE PrefConstraints(a, k + 1, acc \cup PrefConstraintsOf(a, a.staff_preferences[k]))

HardAndSoftConstraints(a, leaves) ==
    LeaveConstraints(a, leaves) \cup MinStaffConstraints(a) \cup DailyConstraints(a)
        \cup WeekConstraints(a) \cup RestConstraints(a)

\* mutant: the weights of the rest and the weekly slack swapped
CoeffSwapped(c) ==
    CASE c.name[1] = "min_staff_slack" -> UnderstaffPenalty
      [] c.name[1] = "week_slack"      -> RestPenalty
      [] c.name[1] = "rest_slack"      -> WeekPenalty
      [] c.name[1] = "pref"            -> PreferencePenalty
      [] OTHER                         -> 0

\* mutant: a missing staff member costs nothing
CoeffCoverageFree(c) ==
    CASE c.name[1] = "min_staff_slack" -> 0
      [] c.name[1] = "week_slack"      -> WeekPenalty
      [] c.name[1] = "rest_slack"      -> RestPenalty
      [] c.name[1] = "pref"            -> PreferencePenalty
      [] OTHER                         -> 0

Coeff(c) ==
    CASE c.name[1] = "min_staff_slack" -> UnderstaffPenalty
      [] c.name[1] = "week_slack"      -> WeekPenalty
      [] c.name[1] = "rest_slack"      -> RestPenalty
      [] c.name[1] = "pref"            -> PreferencePenalty
      [] OTHER                         -> 0

\* objective_terms : lines 143, 155, 178, 191, 203
ObjectiveTerms(constraints) ==
    {[slack |-> c.name, coeff |-> Coeff(c)] : c \in {x \in constraints : x.slack_hi > 0}}

NewSolver == [status |-> "NEW", values |-> <<>>]

\* mutant: the model left by the previous call is added to
CpModelKept(old) ==
    IF old = None THEN [shifts |-> {}, constraints |-> {}]
    ELSE [shifts |-> old.shifts, constraints |-> old.constraints]

\* line 121: cp_model.CpModel() is empty whatever self.model held before
CpModel(old) == [shifts |-> {}, constraints |-> {}]

BuildModel ==
    /\ pc = "build"
    /\ LET new == CpModel(model)
           variables == new.shifts \cup ShiftKeys(args)
           base == new.constraints \cup HardAndSoftConstraints(args, staff_leaves)
           prefs == PrefConstraints(args, 1, {})
       IN
        \/ \* lines 123-125: the model or the solver cannot be created
           /\ last_error' = [msg |-> "Failed to initialize optimization model"]
           /\ ret' = Failure
           /\ pc' = "done"
           /\ UNCHANGED <<model, solver, debug_info>>
        \/ /\ prefs.raised # ""
           /\ model' = [shifts |-> variables,
                        constraints |-> base \cup prefs.constraints,
                        objective |-> {}]
           /\ solver' = NewSolver
           /\ Raise(prefs.raised)
        \/ /\ prefs.raised = ""
           /\ solver' = NewSolver
           /\ \/ /\ model' = [shifts |-> variables,
                              constraints |-> base \cup prefs.constraints,
                              objective |-> ObjectiveTerms(base \cup prefs.constraints)]
                 /\ pc' = "solve"
                 /\ UNCHANGED <<last_error, debug_info, ret>>
              \/ \* lines 209-211: Minimize raises
                 /\ model' = [shifts |-> variables,
                              constraints |-> base \cup prefs.constraints,
                              objective |-> {}]
                 /\ last_error' = [msg |-> "Failed to set optimization objective"]
                 /\ ret' = Failure
                 /\ pc' = "done"
                 /\ UNCHANGED debug_info
    /\ UNCHANGED <<args, staff_leaves, history, roster_df, metrics>>

(***************************************************************************)
(* The CP-SAT solver, by its contract: Solve returns a status; with        *)
(* OPTIMAL or FEASIBLE the values satisfy every constraint of the model,   *)
(* and with OPTIMAL they also minimise the objective.  UNKNOWN is the time *)
(* limit reached without a solution, INFEASIBLE is proved infeasibility.   *)
(***************************************************************************)
Assigned(vs, sh) == Cardinality({k \in vs : sh[k] = 1})

Holds(c, sh, slack) ==
    CASE c.kind = "eq"  -> Assigned(c.vars, sh) = c.rhs
      [] c.kind = "ge"  -> Assigned(c.vars, sh) + slack >= c.rhs
      [] c.kind = "le"  -> Assigned(c.vars, sh) <= c.rhs + slack
      [] c.kind = "imp" -> (slack = 1) => (Assigned(c.vars, sh) = c.rhs)

Satisfiable(c, sh) == \E slack \in 0..c.slack_hi : Holds(c, sh, slack)

Feasible(m, sh) == \A c \in m.constraints : Satisfiable(c, sh)

\* the least value the slack variable of c can take under sh
MinSlack(c, sh) ==
    CHOOSE slack \in 0..c.slack_hi :
        /\ Holds(c, sh, slack)
        /\ \A t \in 0..c.slack_hi : Holds(c, sh, t) => slack <= t

RECURSIVE SumTerms(_, _, _)
SumTerms(terms, m, sh) ==
    IF terms = {} THEN 0
    ELSE LET t == CHOOSE x \in terms : TRUE
             c == CHOOSE x \in m.constraints : x.name = t.slack
         IN t.coeff * MinSlack(c, sh) + SumTerms(terms \ {t}, m, sh)

\* the least objective value reachable with the shift variables set as sh
Objective(m, sh) == SumTerms(m.objective, m, sh)

\* the variables an "eq" constraint fixes to zero take no other value
FixedVars(m) == UNION {c.vars : c \in {x \in m.constraints : x.kind = "eq" /\ x.rhs = 0}}

Candidates(m) ==
    {[k \in m.shifts |-> IF k \in FixedVars(m) THEN 0 ELSE f[k]] :
        f \in [m.shifts \ FixedVars(m) -> {0, 1}]}

FeasibleValues(m) == {sh \in Candidates(m) : Feasible(m, sh)}

OptimalValues(m) ==
    LET feasible == FeasibleValues(m)
        objective == [sh \in feasible |-> Objective(m, sh)]
        objectives == {objective[sh] : sh \in feasible}
        best == CHOOSE o \in objectives : \A q \in objectives : o <= q
    IN {sh \in feasible : objective[sh] = best}

SolverOutcomes(m) ==
    {[status |-> "OPTIMAL", values |-> sh] : sh \in OptimalValues(m)}
    \cup {[status |-> "FEASIBLE", values |-> sh] : sh \in FeasibleValues(m)}
    \cup {[status |-> "UNKNOWN", values |-> <<>>]}
    \cup (IF FeasibleValues(m) = {}
          THEN {[status |-> "INFEASIBLE", values |-> <<>>]} ELSE {})

(***************************************************************************)
(* Solving : lines 213-224.                                                *)
(***************************************************************************)
Solve ==
    /\ pc = "solve"
    /\ \/ \E outcome \in SolverOutcomes(model) :
             /\ solver' = outcome
             /\ debug_info' = log_debug(log_debug(debug_info, <<"Starting optimization...">>),
                                        <<"Optimization status", outcome.status>>)
             /\ pc' = "extract"
             /\ UNCHANGED <<last_error, ret>>
       \/ \* lines 222-224: Solve raises
          /\ debug_info' = log_debug(debug_info, <<"Starting optimization...">>)
          /\ last_error' = [msg |-> "Solver failed"]
          /\ ret' = Failure
          /\ pc' = "done"
          /\ UNCHANGED solver
    /\ UNCHANGED <<args, model, staff_leaves, history, roster_df, metrics>>

(***************************************************************************)
(* Result extraction : lines 226-267.                                      *)
(***************************************************************************)
\* _get_shift_time : lines 274-281
get_shift_time(shift) ==
    CASE shift = 0 -> "07:00-15:00"
      [] shift = 1 -> "15:00-23:00"
      [] shift = 2 -> "23:00-07:00"
      [] OTHER     -> "Unknown"

\* lines 234-242: the staff indices collected for one (day, shift), in order
StaffOnShift(a, leaves, sh, day, shift) ==
    SelectSeq(Range(num_staff(a)),
              LAMBDA staff : /\ ~IsOnLeave(leaves, staff, day)
                             /\ sh[<<staff, day, shift>>] = 1)

StaffNames(a, idxs) == [i \in 1..Len(idxs) |-> a.staff_data.name[idxs[i] + 1]]

\* lines 245-252; Date is today + day, kept as the day offset
RosterRow(a, leaves, sh, day, shift) ==
    LET staff_on_shift == StaffNames(a, StaffOnShift(a, leaves, sh, day, shift)) IN
    [Day |-> day + 1,
     Date |-> Date(day),
     Shift |-> shift + 1,
     Shift_Time |-> get_shift_time(shift),
     Staff |-> staff_on_shift,
     Staff_Count |-> Len(staff_on_shift)]

\* mutant: the test of line 244 dropped
RowKeptAlways(row) == TRUE

\* line 244
RowKept(row) == row.Staff # <<>>

\* mutant: the two loops of lines 231 and 233 swapped
RosterDataByShift(a, leaves, sh) ==
    SelectSeq([k \in 1..(a.num_days * a.shifts_per_day) |->
                  RosterRow(a, leaves, sh, (k - 1) % a.num_days,
                                           (k - 1) \div a.num_days)],
              RowKept)

\* lines 228-252: the rows in the order of the two loops
RosterData(a, leaves, sh) ==
    SelectSeq([k \in 1..(a.num_days * a.shifts_per_day) |->
                  RosterRow(a, leaves, sh, (k - 1) \div a.shifts_per_day,
                                           (k - 1) % a.shifts_per_day)],
              RowKept)

\* line 242
TotalAssignments(a, leaves, sh) ==
    SumSeq([k \in 1..(a.num_days * a.shifts_per_day) |->
               Len(StaffOnShift(a, leaves, sh, (k - 1) \div a.shifts_per_day,
                                               (k - 1) % a.shifts_per_day))])

SolutionFound(status) == status = "OPTIMAL" \/ status = "FEASIBLE"

\* mutant: the test of line 256 dropped
NoRosterDataNever(roster_data) == FALSE

\* line 256: `if not roster_data`
NoRosterData(roster_data) == roster_data = <<>>

\* mutant: the message of lines 263-266 without the status
NoSolutionErrorBare(status) == [msg |-> "Could not find a feasible solution"]

\* lines 263-266
NoSolutionError(status) ==
    [msg |-> "Could not find a feasible solution", status |-> status]

Extract ==
    /\ pc = "extract"
    /\ IF SolutionFound(solver.status)
       THEN LET roster_data == RosterData(args, staff_leaves, solver.values) IN
            /\ debug_info' = log_debug(debug_info,
                   <<"Total assignments made",
                     TotalAssignments(args, staff_leaves, solver.values)>>)
            /\ IF NoRosterData(roster_data)
               THEN /\ last_error' = [msg |-> "No valid assignments found in the solution"]
                    /\ ret' = Failure
               ELSE /\ ret' = [roster |-> [rows |-> roster_data], success |-> TRUE]
                    /\ UNCHANGED last_error
       ELSE /\ last_error' = NoSolutionError(solver.status)
            /\ ret' = Failure
            /\ UNCHANGED debug_info
    /\ pc' = "done"
    /\ UNCHANGED <<args, model, solver, staff_leaves, history, roster_df, metrics>>

(***************************************************************************)
(* calculate_roster_metrics and its helpers : lines 283-346.               *)
(*                                                                         *)
(* A roster table is [rows |-> <<...>>]; a column exists when every row    *)
(* has the field.  Reading a missing column raises KeyError.               *)
(***************************************************************************)
Frac(n, d) == [num |-> n, den |-> d]

\* f * k
Scale(f, k) == [num |-> f.num * k, den |-> f.den]

\* DataFrame.empty
empty(df) == df.rows = <<>>

HasColumn(df, column) == \A i \in 1..Len(df.rows) : column \in DOMAIN df.rows[i]

Column(df, column) == [i \in 1..Len(df.rows) |-> df.rows[i][column]]

\* Series.mean()
mean(s) == Frac(SumSeq(s), Len(s))

\* mutant: an empty roster counted as fully covered
ZeroMetricsCovered ==
    [total_shifts |-> 0, avg_staff_per_shift |-> 0, coverage |-> 100,
     staff_utilization |-> 0, preference_satisfaction |-> 0]

\* lines 287-293 and 305-311
ZeroMetrics ==
    [total_shifts |-> 0, avg_staff_per_shift |-> 0, coverage |-> 0,
     staff_utilization |-> 0, preference_satisfaction |-> 0]

\* mutant: the utilisation is cut off at 100
calculate_staff_utilizationCapped(df) ==
    IF df = None \/ empty(df) THEN Frac(0, 1)
    ELSE IF SumSeq(Column(df, "Staff_Count")) > Len(df.rows) THEN Frac(100, 1)
    ELSE Scale(Frac(SumSeq(Column(df, "Staff_Count")), Len(df.rows)), 100)

\* _calculate_staff_utilization : lines 313-319
calculate_staff_utilization(df) ==
    IF df = None \/ empty(df) THEN Frac(0, 1)
    ELSE Scale(Frac(SumSeq(Column(df, "Staff_Count")), Len(df.rows)), 100)

\* [s.strip() for s in row['Staff'].split(',')] : ''.split(',') is ['']
split(staff) == IF staff = <<>> THEN <<"">> ELSE staff

\* shift_time.startswith(prefix)
startswith(shift_time, prefix) ==
    <<shift_time, prefix>> \in {<<"07:00-15:00", "07:00">>,
                                <<"15:00-23:00", "15:00">>,
                                <<"23:00-07:00", "23:00">>}

\* `word in staff` for the names of the model
Contains(staff, word) == <<staff, word>> \in {<<"Evening Star", "Evening">>}

\* lines 338-340
PreferredAssignment(shift_time, staff) ==
    \/ startswith(shift_time, "07:00") /\ Contains(staff, "Morning")
    \/ startswith(shift_time, "15:00") /\ Contains(staff, "Evening")
    \/ startswith(shift_time, "23:00") /\ Contains(staff, "Night")

\* _calculate_preference_satisfaction : lines 321-346
calculate_preference_satisfaction(df) ==
    IF df = None \/ empty(df) THEN Frac(0, 1)
    ELSE IF ~HasColumn(df, "Staff") \/ ~HasColumn(df, "Shift_Time") THEN Frac(0, 1)
    ELSE LET total_assignments ==
                 SumSeq([i \in 1..Len(df.rows) |-> Len(split(df.rows[i].Staff))])
             preferred_assignments ==
                 SumSeq([i \in 1..Len(df.rows) |->
                     Cardinality({j \in 1..Len(split(df.rows[i].Staff)) :
                         PreferredAssignment(df.rows[i].Shift_Time,
                                             split(df.rows[i].Staff)[j])})])
         IN IF total_assignments > 0
            THEN Scale(Frac(preferred_assignments, total_assignments), 100)
            ELSE Frac(0, 1)

\* mutant: the mean of the counts instead of the mean of `count > 0`
coverageOfCounts(df) == Scale(mean(Column(df, "Staff_Count")), 100)

\* line 298
coverage(df) ==
    Scale(mean([i \in 1..Len(df.rows) |-> IF df.rows[i].Staff_Count > 0 THEN 1 ELSE 0]),
          100)

\* calculate_roster_metrics : lines 283-311
calculate_roster_metrics(df) ==
    IF df = None \/ empty(df) THEN ZeroMetrics
    ELSE IF ~HasColumn(df, "Staff_Count") THEN ZeroMetrics
    ELSE [total_shifts |-> Len(df.rows),
          avg_staff_per_shift |-> mean(Column(df, "Staff_Count")),
          coverage |-> coverage(df),
          staff_utilization |-> calculate_staff_utilization(df),
          preference_satisfaction |-> calculate_preference_satisfaction(df)]

\* a call of calculate_roster_metrics between two optimize_roster calls
MetricsOf(Tables) ==
    /\ pc \in {"idle", "done"}
    /\ \E df \in Tables \cup (IF pc = "done" /\ ret.success THEN {ret.roster} ELSE {}) :
          /\ roster_df' = df
          /\ metrics' = calculate_roster_metrics(df)
    /\ UNCHANGED <<pc, args, model, solver, last_error, debug_info, staff_leaves,
                   ret, history>>

(***************************************************************************)
(* The calls that are explored.                                            *)
(***************************************************************************)
Call(staff_data, num_days, shifts_per_day, min_staff_per_shift, max_shifts_per_week, staff_preferences, leave_requests) ==
    [staff_data |-> staff_data, num_days |-> num_days,
     shifts_per_day |-> shifts_per_day,
     min_staff_per_shift |-> min_staff_per_shift,
     max_shifts_per_week |-> max_shifts_per_week,
     staff_preferences |-> staff_preferences,
     leave_requests |-> leave_requests]

DataFrame(names) == [name |-> names]

StaffTables == {None} \cup {DataFrame(s) : s \in SeqsUpTo(Names, MaxStaff)}

LeaveDates == {BadDate} \cup {Date(k) : k \in (0 - 1)..MaxDays}

Request(status, staff_member, start_date, end_date) ==
    [status |-> status, staff_member |-> staff_member,
     start_date |-> start_date, end_date |-> end_date]

ApprovedRequests ==
    {Request("Approved", "A", s, e) : s \in LeaveDates, e \in LeaveDates}

PendingRequests ==
    {Request("Pending", "A", Date(0), Date(MaxDays)),
     Request("Pending", "A", BadDate, BadDate)}

WholeDayRequests ==
    {Request("Approved", n, Date(0), Date(e)) : n \in Names, e \in {0, MaxDays}}

\* a pending request next to an approved one that reaches beyond both ends
MixedRequests ==
    <<Request("Pending", "B", Date(0), Date(MaxDays)),
      Request("Approved", "A", Date(0 - 1), Date(MaxDays))>>

LeaveLists ==
    {<<>>, MixedRequests}
           \cup {<<r>> : r \in ApprovedRequests \cup PendingRequests}
           \cup {<<r1, r2>> : r1 \in WholeDayRequests, r2 \in WholeDayRequests}

Pref(staff_id, preferred_shift) ==
    [staff_id |-> staff_id, preferred_shift |-> preferred_shift]

PrefLists ==
    {<<>>, <<Pref(MaxStaff, "Morning")>>, <<Pref(0, "Any")>>,
     <<Pref(0, "Morning"), Pref(1, "Night")>>}
    \cup {<<Pref(0, l)>> : l \in ShiftLabels}

\* the solver is run on models of at most MaxCells shift variables
Small(a) ==
    \/ a.staff_data = None
    \/ a.num_days <= 0 \/ a.shifts_per_day <= 0
    \/ num_staff(a) * a.num_days * a.shifts_per_day <= MaxCells

ParamInputs ==
    {a \in {Call(t, d, s, m, w, <<>>, l) :
              t \in StaffTables, d \in 0..MaxDays, s \in 0..MaxShifts,
              m \in 0..MaxMinStaff, w \in 0..MaxWeekCap,
              l \in {<<>>, <<Request("Approved", "A", Date(0), Date(0))>>}} : Small(a)}

LeaveInputs ==
    {a \in {Call(t, d, s, 1, w, <<>>, l) :
              t \in StaffTables, d \in 1..MaxDays, s \in 1..MaxShifts,
              w \in {MaxWeekCap}, l \in LeaveLists} : Small(a)}

PrefInputs ==
    {a \in {Call(t, d, s, 1, w, p, l) :
              t \in StaffTables, d \in 1..MaxDays, s \in 1..MaxShifts,
              w \in {MaxWeekCap}, p \in PrefLists,
              l \in {<<>>, <<Request("Approved", "A", Date(0), Date(0))>>}} : Small(a)}

\* the capacity scenario of the specification: 2 staff, 7 days, 3 shifts, min 3, max 5
CapacityExample == Call(DataFrame(<<"A", "B">>), DaysPerWeek, 3, 3, 5, <<>>, <<>>)

Inputs == ParamInputs \cup LeaveInputs \cup PrefInputs \cup {CapacityExample}

Enter == CallWith(Inputs)

Next ==
    \/ Enter
    \/ ProcessLeaves
    \/ Validate
    \/ Capacity
    \/ BuildModel
    \/ Solve
    \/ Extract

Spec == Init /\ [][Next]_vars

(***************************************************************************)
(* A second specification for the weekly cap: a horizon of one full week   *)
(* and one day, one shift a day, two staff of whom B is on approved leave   *)
(* for all or all but the first day.                                       *)
(***************************************************************************)
WeekHorizon == DaysPerWeek + 1

WeekInputs ==
    {Call(DataFrame(<<"A", "B">>), WeekHorizon, 1, 1, w, <<>>,
          <<Request("Approved", "B", Date(from), Date(WeekHorizon - 1))>>) :
        w \in {2, 3}, from \in {0, 1}}

EnterWeek == CallWith(WeekInputs)

NextWeek ==
    \/ EnterWeek
    \/ ProcessLeaves
    \/ Validate
    \/ Capacity
    \/ BuildModel
    \/ Solve
    \/ Extract

SpecWeek == Init /\ [][NextWeek]_vars

(***************************************************************************)
(* A third specification for the calls that follow one another on the same *)
(* instance: up to MaxCalls calls drawn from a few inputs that end in each  *)
(* of the ways a call can end.                                             *)
(***************************************************************************)
OneStaff == DataFrame(<<"A">>)

SeqInputs ==
    {Call(OneStaff, 1, 1, 1, 1, <<>>, <<>>),
     Call(DataFrame(<<"A", "B">>), 1, 2, 1, 1, <<>>, <<>>),
     Call(OneStaff, 1, 1, 1, 1, <<>>, <<Request("Approved", "A", Date(0), Date(0))>>),
     Call(OneStaff, 1, 1, 1, 1, <<>>, <<Request("Approved", "B", Date(0), Date(0))>>),
     Call(OneStaff, 1, 1, 1, 1, <<Pref(0, "Night")>>, <<>>),
     Call(OneStaff, 1, 2, 2, 1, <<>>, <<>>),
     Call(OneStaff, 0, 1, 1, 1, <<>>, <<>>),
     Call(DataFrame(<<>>), 1, 1, 1, 1, <<>>, <<>>)}

EnterSeq == CallWith(SeqInputs)

AgainSeq == CallAgain(SeqInputs)

NextSeq ==
    \/ EnterSeq
    \/ AgainSeq
    \/ ProcessLeaves
    \/ Validate
    \/ Capacity
    \/ BuildModel
    \/ Solve
    \/ Extract

SpecSeq == Init /\ [][NextSeq]_vars

(***************************************************************************)
(* A fourth specification for the objective: six staff of whom four are on *)
(* approved leave for the whole horizon, two days of two or three shifts,  *)
(* one staff per shift, one shift a week.  Coverage, the weekly cap and    *)
(* the rest period all compete for the two staff who are left.             *)
(***************************************************************************)
RankStaff == DataFrame(<<"A", "B", "C", "D", "E", "F">>)

RankLeaves ==
    <<Request("Approved", "C", Date(0), Date(1)),
      Request("Approved", "D", Date(0), Date(1)),
      Request("Approved", "E", Date(0), Date(1)),
      Request("Approved", "F", Date(0), Date(1))>>

RankInputs ==
    {Call(RankStaff, 2, s, 1, 1, p, RankLeaves) :
        s \in {2, 3}, p \in {<<>>, <<Pref(0, "Night")>>}}

EnterRank == CallWith(RankInputs)

NextRank ==
    \/ EnterRank
    \/ ProcessLeaves
    \/ Validate
    \/ Capacity
    \/ BuildModel
    \/ Solve
    \/ Extract

SpecRank == Init /\ [][NextRank]_vars

(***************************************************************************)
(* A fifth specification for the metrics: calculate_roster_metrics is      *)
(* called, before and after an optimize_roster call, on no table, on an    *)
(* empty one, on hand-built tables of up to MaxRows rows and on the roster *)
(* the call returned.                                                      *)
(***************************************************************************)
MaxRows == 2

HandRow(shift, staff, count) ==
    [Day |-> 1, Date |-> Date(0), Shift |-> shift + 1,
     Shift_Time |-> get_shift_time(shift), Staff |-> staff, Staff_Count |-> count]

HandRows ==
    {HandRow(0, <<>>, 0), HandRow(0, <<"A">>, 1), HandRow(1, <<"A", "B">>, 2),
     HandRow(1, <<"Evening Star">>, 1), HandRow(2, <<"A", "B", "Evening Star">>, 3)}

\* a table without the Staff_Count column
NoCountTable == [rows |-> <<[Day |-> 1, Staff |-> <<"A">>]>>]

HandTables == {None, NoCountTable} \cup {[rows |-> r] : r \in SeqsUpTo(HandRows, MaxRows)}

MetricsInputs ==
    {Call(DataFrame(<<"A", "B">>), 1, 2, 1, 1, <<>>, <<>>),
     Call(DataFrame(<<"A", "B">>), 1, 1, 2, 1, <<>>, <<>>),
     Call(OneStaff, 1, 2, 2, 1, <<>>, <<>>)}

EnterMetrics == CallWith(MetricsInputs)

Metrics == MetricsOf(HandTables)

NextMetrics ==
    \/ EnterMetrics
    \/ ProcessLeaves
    \/ Validate
    \/ Capacity
    \/ BuildModel
    \/ Solve
    \/ Extract
    \/ Metrics

SpecMetrics == Init /\ [][NextMetrics]_vars

(***************************************************************************)
(* Vocabulary of the properties.                                           *)
(***************************************************************************)
Returned == pc = "done"

Succeeded == pc = "done" /\ ret.success

Failed == pc = "done" /\ ~ret.success

Rows == ret.roster.rows

\* how often `name` occurs in the sequence `names`
Occurrences(names, name) == Cardinality({i \in 1..Len(names) : names[i] = name})

\* how often `name` is listed in the rows of day d
ListedOnDay(name, d) ==
    SumSeq([i \in 1..Len(Rows) |->
               IF Rows[i].Day = d + 1 THEN Occurrences(Rows[i].Staff, name) ELSE 0])

ApprovedLeaves ==
    {args.leave_requests[k] : k \in {i \in 1..Len(args.leave_requests) :
                                        args.leave_requests[i].status = "Approved"}}

Covers(request, d) ==
    day_num(request.start_date) <= d /\ d <= day_num(request.end_date)

(***************************************************************************)
(* C1: after a successful call, for every approved leave request whose     *)
(* date range covers day D of the horizon, the name given in the request   *)
(* is in the Staff list of no roster row of day D.                         *)
(* Violated: leave is resolved to the first staff row of that name only    *)
(* (line 58), so a second row of the same name can still be rostered.      *)
(***************************************************************************)
C1_LeaveNameAbsent ==
    Succeeded =>
        \A request \in ApprovedLeaves : \A d \in 0..(args.num_days - 1) :
            Covers(request, d) => ListedOnDay(request.staff_member, d) = 0

(***************************************************************************)
(* C2: after a successful call every staff member is listed in at most one *)
(* shift of a day: no staff index is collected for two shifts of one day,  *)
(* and so no name is listed more often in the rows of a day than there are *)
(* staff rows carrying it.                                                 *)
(***************************************************************************)
C2_OneShiftPerDay ==
    Succeeded =>
        \A d \in 0..(args.num_days - 1) :
            /\ \A staff \in Staffs(args) :
                  Cardinality({shift \in Shifts(args) :
                      \E i \in 1..Len(StaffOnShift(args, staff_leaves, solver.values, d, shift)) :
                          StaffOnShift(args, staff_leaves, solver.values, d, shift)[i] = staff})
                      <= 1
            /\ \A name \in Names :
                  ListedOnDay(name, d) <= Occurrences(args.staff_data.name, name)

\* a staff member works a second shift of a day in no accepted solution, and
\* some roster has two shifts of one day staffed
C2_Witness ==
    /\ Succeeded
    /\ args.shifts_per_day >= 2
    /\ \E i \in 1..Len(Rows) : \E j \in 1..Len(Rows) :
          Rows[i].Day = Rows[j].Day /\ Rows[i].Shift # Rows[j].Shift

(***************************************************************************)
(* C3: every call ends either with a non-empty roster and success = true   *)
(* or with no roster, success = false and last_error set to a non-empty    *)
(* message; nothing is returned before that.                               *)
(***************************************************************************)
C3_TwoOutcomes ==
    /\ Returned =>
          \/ /\ ret.success
             /\ ret.roster # None
             /\ ret.roster.rows # <<>>
          \/ /\ ~ret.success
             /\ ret.roster = None
             /\ last_error # None
             /\ last_error.msg # ""
    /\ ~Returned => ret = None

\* a preference naming a slot that does not exist ends the call in the exception
\* handler, after the model has been created
C3_Witness ==
    /\ Failed
    /\ last_error = OptimizationError("KeyError")
    /\ model # None
    /\ ret.roster = None

(***************************************************************************)
(* C4: in a returned roster every row's Staff_Count is the number of names *)
(* in its Staff list and is at least 1, and a (day, shift) pair for which  *)
(* no staff is collected has no row.                                       *)
(***************************************************************************)
C4_StaffCount ==
    Succeeded =>
        /\ \A i \in 1..Len(Rows) :
              /\ Rows[i].Staff_Count = Len(Rows[i].Staff)
              /\ Rows[i].Staff_Count >= 1
        /\ \A d \in Days(args), shift \in Shifts(args) :
              StaffOnShift(args, staff_leaves, solver.values, d, shift) = <<>>
                  => ~\E i \in 1..Len(Rows) : Rows[i].Day = d + 1 /\ Rows[i].Shift = shift + 1

\* a roster that leaves a (day, shift) pair out
C4_Witness ==
    /\ Succeeded
    /\ Len(Rows) < args.num_days * args.shifts_per_day
    /\ \E i \in 1..Len(Rows) : Rows[i].Staff_Count = 2

(***************************************************************************)
(* C5: in every accepted solution, for every staff member and every week   *)
(* block of days [7w, min(7w + 7, num_days)), the number of shifts         *)
(* assigned to the staff member in the block is at most                    *)
(* max_shifts_per_week + 3.                                                *)
(***************************************************************************)
Accepted == pc \in {"extract", "done"} /\ solver # None /\ SolutionFound(solver.status)

Ceil7(d) == CHOOSE w \in 0..d : 7 * w >= d /\ 7 * (w - 1) < d

WorkedInBlock(sh, staff, w) ==
    Cardinality({k \in DOMAIN sh :
        /\ k[1] = staff
        /\ 7 * w <= k[2] /\ k[2] < Min(7 * w + 7, args.num_days)
        /\ sh[k] = 1})

C5_WeeklyCap ==
    Accepted =>
        \A staff \in Staffs(args) : \A w \in 0..(Ceil7(args.num_days) - 1) :
            WorkedInBlock(solver.values, staff, w) <= args.max_shifts_per_week + 3

\* a solution that uses all three extra shifts in a week that has more days left
C5_Witness ==
    /\ Accepted
    /\ args.max_shifts_per_week + 3 < 7
    /\ WorkedInBlock(solver.values, 0, 0) = args.max_shifts_per_week + 3

(***************************************************************************)
(* C6: whenever the staff table is empty or absent the call returns        *)
(* (null, false) with last_error exactly "No staff data provided",         *)
(* whatever the other arguments are.                                       *)
(* Violated: the leave requests are processed before the table is looked   *)
(* at (lines 48-68 before 70-73), and an approved request then raises.     *)
(***************************************************************************)
NoStaff == args.staff_data = None \/ Len(args.staff_data.name) = 0

C6_NoStaffData ==
    (Returned /\ NoStaff) =>
        /\ ret = Failure
        /\ last_error = [msg |-> "No staff data provided"]

(***************************************************************************)
(* C7: with a non-empty staff table and a scheduling parameter <= 0 the    *)
(* call returns (null, false) with the "must be positive" error of the     *)
(* first non-positive parameter in the order num_days, shifts_per_day,     *)
(* min_staff_per_shift, max_shifts_per_week.                               *)
(* Violated: an approved leave request that raises (unmatched name,        *)
(* malformed date) ends the call before the parameters are validated.      *)
(***************************************************************************)
FirstNonPositive(a) ==
    IF a.num_days <= 0 THEN "Number of days must be positive"
    ELSE IF a.shifts_per_day <= 0 THEN "Shifts per day must be positive"
    ELSE IF a.min_staff_per_shift <= 0 THEN "Minimum staff per shift must be positive"
    ELSE "Maximum shifts per week must be positive"

SomeNonPositive(a) ==
    \/ a.num_days <= 0 \/ a.shifts_per_day <= 0
    \/ a.min_staff_per_shift <= 0 \/ a.max_shifts_per_week <= 0

C7_MustBePositive ==
    (Returned /\ ~NoStaff /\ SomeNonPositive(args)) =>
        /\ ret = Failure
        /\ last_error = [msg |-> FirstNonPositive(args)]

(***************************************************************************)
(* C8: a call that passes the empty-staff and positivity checks fails with *)
(* the capacity error exactly when                                         *)
(*   num_days * shifts_per_day * min_staff_per_shift                       *)
(*     > num_staff * max_shifts_per_week * ceil(num_days / 7),             *)
(* the error reports both numbers, and neither a model nor a solver has    *)
(* been created.  The checks are passed when the trail starts with the     *)
(* staff count logged at line 90.                                          *)
(***************************************************************************)
PassedChecks == debug_info # <<>> /\ debug_info[1][1] = "Total staff members"

IsCapacityError == last_error # None /\ last_error.msg = "Not enough staff capacity"

SlotsNeeded == args.num_days * args.shifts_per_day * args.min_staff_per_shift

SlotsAvailable ==
    Len(args.staff_data.name) * args.max_shifts_per_week * Ceil7(args.num_days)

C8_CapacityCheck ==
    (Returned /\ PassedChecks) =>
        /\ IsCapacityError <=> SlotsNeeded > SlotsAvailable
        /\ IsCapacityError =>
              /\ ret = Failure
              /\ last_error.need = SlotsNeeded
              /\ last_error.have = SlotsAvailable
              /\ model = None
              /\ solver = None

\* the scenario of the specification: 63 slots needed, 10 available
C8_Witness ==
    /\ Returned
    /\ args = CapacityExample
    /\ IsCapacityError
    /\ last_error.need = 63 /\ last_error.have = 10
    /\ solver = None

(***************************************************************************)
(* C9: whenever the capacity check fails, no assignment that satisfies the *)
(* hard constraints (nothing on a leave day, at most one shift a day)      *)
(* staffs every (day, shift) with at least min_staff_per_shift while       *)
(* keeping every staff member within max_shifts_per_week in every week     *)
(* block.  Checked for the calls of at most MaxCells shift variables.      *)
(***************************************************************************)
PenaltyFree(sh) ==
    /\ \A k \in DOMAIN sh : IsOnLeave(staff_leaves, k[1], k[2]) => sh[k] = 0
    /\ \A staff \in Staffs(args), d \in Days(args) :
          Cardinality({k \in DOMAIN sh : k[1] = staff /\ k[2] = d /\ sh[k] = 1}) <= 1
    /\ \A d \in Days(args), shift \in Shifts(args) :
          Cardinality({k \in DOMAIN sh : k[2] = d /\ k[3] = shift /\ sh[k] = 1})
              >= args.min_staff_per_shift
    /\ \A staff \in Staffs(args) : \A w \in 0..(Ceil7(args.num_days) - 1) :
          WorkedInBlock(sh, staff, w) <= args.max_shifts_per_week

EnumerableCall == Cardinality(ShiftKeys(args)) <= MaxCells

C9_CapacityNecessary ==
    (Returned /\ IsCapacityError /\ EnumerableCall) =>
        \A sh \in [ShiftKeys(args) -> {0, 1}] : ~PenaltyFree(sh)

\* a capacity failure on a call with several staff, days and shifts
C9_Witness ==
    /\ Returned /\ IsCapacityError /\ EnumerableCall
    /\ Len(args.staff_data.name) = 2 /\ args.num_days = 2 /\ args.shifts_per_day = 2

(***************************************************************************)
(* C10: preferences are never a hard constraint: a call whose preference   *)
(* entries each name Morning, Evening or Night ends in failure only with   *)
(* an error the same call without preferences can end with.                *)
(* Violated: a preferred slot >= shifts_per_day raises KeyError at line    *)
(* 202 and fails a call that succeeds without the preferences.             *)
(***************************************************************************)
ValidPreferences ==
    \A k \in 1..Len(args.staff_preferences) :
        args.staff_preferences[k].preferred_shift \in ShiftLabels

\* the errors a call without preferences can end with
ErrorsWithoutPreferences(a) ==
    LET b == [a EXCEPT !.staff_preferences = <<>>]
        r == ProcessRequests(b, 1, <<>>)
        constraints == HardAndSoftConstraints(b, r.leaves)
        m == [shifts |-> ShiftKeys(b), constraints |-> constraints,
              objective |-> ObjectiveTerms(constraints)]
    IN IF r.raised # "" THEN {OptimizationError(r.raised)}
       ELSE IF ValidationError(b) # "" THEN {[msg |-> ValidationError(b)]}
       ELSE IF CapacityExceeded(b) THEN {CapacityError(b)}
       ELSE {[msg |-> "Failed to initialize optimization model"],
             [msg |-> "Failed to set optimization objective"],
             [msg |-> "Solver failed"],
             [msg |-> "Could not find a feasible solution", status |-> "UNKNOWN"]}
            \cup (IF \E sh \in FeasibleValues(m) : RosterData(b, r.leaves, sh) = <<>>
                  THEN {[msg |-> "No valid assignments found in the solution"]}
                  ELSE {})

C10_PreferencesNeverHard ==
    (Failed /\ ValidPreferences) => last_error \in ErrorsWithoutPreferences(args)

(***************************************************************************)
(* C11: a roster row carries one of the labels 07:00-15:00 / 15:00-23:00 / *)
(* 23:00-07:00 (for slots 0 / 1 / 2) only when shifts_per_day = 3; with    *)
(* any other shifts_per_day every row's Shift_Time is "Unknown".           *)
(* Violated: _get_shift_time looks at the slot alone (lines 276-281), so   *)
(* slots 0, 1, 2 are labelled whatever shifts_per_day is, and slot 3 of a  *)
(* day of four shifts is the only one labelled "Unknown".                  *)
(***************************************************************************)
LabelOfSlot(slot) ==
    IF slot = 0 THEN "07:00-15:00"
    ELSE IF slot = 1 THEN "15:00-23:00"
    ELSE "23:00-07:00"

C11_ShiftTimeLabel ==
    Succeeded =>
        \A i \in 1..Len(Rows) :
            IF args.shifts_per_day = 3
            THEN Rows[i].Shift_Time = LabelOfSlot(Rows[i].Shift - 1)
            ELSE Rows[i].Shift_Time = "Unknown"

(***************************************************************************)
(* C12: when the solver reports OPTIMAL or FEASIBLE and its solution       *)
(* assigns nobody to any (day, shift), the call returns (null, false) with *)
(* the error "No valid assignments found in the solution"; a successful    *)
(* call never returns a roster without rows.                               *)
(***************************************************************************)
SolverFinished == Returned /\ solver # None /\ solver.status # "NEW"

NobodyAssigned == \A k \in DOMAIN solver.values : solver.values[k] = 0

C12_EmptySolutionIsError ==
    /\ (SolverFinished /\ SolutionFound(solver.status) /\ NobodyAssigned) =>
          /\ ret = Failure
          /\ last_error = [msg |-> "No valid assignments found in the solution"]
    /\ Succeeded => ret.roster.rows # <<>>

\* the all-zero assignment accepted as FEASIBLE on a call with staff to assign
C12_Witness ==
    /\ SolverFinished /\ solver.status = "FEASIBLE" /\ NobodyAssigned
    /\ Cardinality(DOMAIN solver.values) >= 2
    /\ staff_leaves = <<>>
    /\ last_error = [msg |-> "No valid assignments found in the solution"]

(***************************************************************************)
(* C13: when the solver finishes with a status other than OPTIMAL or       *)
(* FEASIBLE, the call returns (null, false), last_error carries that       *)
(* status, and the extraction loop has not run (no roster, no "Total       *)
(* assignments made" entry in the trail).                                  *)
(***************************************************************************)
ExtractionRan ==
    \E i \in 1..Len(debug_info) : debug_info[i][1] = "Total assignments made"

C13_OtherStatusIsError ==
    (SolverFinished /\ ~SolutionFound(solver.status)) =>
        /\ ret = Failure
        /\ last_error = [msg |-> "Could not find a feasible solution",
                         status |-> solver.status]
        /\ ~ExtractionRan

\* the time limit reached without a solution
C13_Witness ==
    /\ SolverFinished /\ solver.status = "UNKNOWN"
    /\ last_error # None /\ last_error.msg = "Could not find a feasible solution"
    /\ ret = Failure

(***************************************************************************)
(* C14: the roster of a successful call has a row for a (day, shift) pair  *)
(* exactly when the solution assigns somebody to it: Day is in             *)
(* 1..num_days, Shift in 1..shifts_per_day, the rows are strictly ordered  *)
(* by Day and then Shift (so no pair has two rows), every row's Date is    *)
(* today + Day - 1, and there are at most num_days * shifts_per_day rows.  *)
(***************************************************************************)
SomebodyAssigned(d, shift) ==
    \E staff \in Staffs(args) : solver.values[<<staff, d, shift>>] = 1

HasRow(d, shift) ==
    \E i \in 1..Len(Rows) : Rows[i].Day = d + 1 /\ Rows[i].Shift = shift + 1

C14_RowPerStaffedPair ==
    Succeeded =>
        /\ \A d \in 0..(args.num_days - 1), shift \in 0..(args.shifts_per_day - 1) :
              HasRow(d, shift) <=> SomebodyAssigned(d, shift)
        /\ \A i \in 1..Len(Rows) :
              /\ Rows[i].Day \in 1..args.num_days
              /\ Rows[i].Shift \in 1..args.shifts_per_day
              /\ Rows[i].Date = [fmt |-> "ymd", day |-> Rows[i].Day - 1]
        /\ \A i \in 1..Len(Rows), j \in 1..Len(Rows) :
              i < j => \/ Rows[i].Day < Rows[j].Day
                       \/ Rows[i].Day = Rows[j].Day /\ Rows[i].Shift < Rows[j].Shift
        /\ Len(Rows) <= args.num_days * args.shifts_per_day

\* a roster over two days and two shifts with one pair left without a row
C14_Witness ==
    /\ Succeeded
    /\ args.num_days = 2 /\ args.shifts_per_day = 2
    /\ Len(Rows) = 3
    /\ ~HasRow(0, 1)

(***************************************************************************)
(* C15: only requests with status "Approved" count, and only on the days   *)
(* 0..num_days-1.  A list without an approved request never ends the call  *)
(* in leave processing; the leave table holds exactly the in-horizon days  *)
(* of the approved requests; and a model that is built fixes to zero       *)
(* exactly the variables of those days and is the model built for the same *)
(* call without the other requests.                                        *)
(***************************************************************************)
ModelBuilt == pc \in {"solve", "extract"}

FirstRow(name) ==
    CHOOSE i \in 0..(Len(args.staff_data.name) - 1) :
        /\ args.staff_data.name[i + 1] = name
        /\ \A j \in 0..(i - 1) : args.staff_data.name[j + 1] # name

ApprovedDays(staff) ==
    {d \in 0..(args.num_days - 1) :
        \E request \in ApprovedLeaves :
            FirstRow(request.staff_member) = staff /\ Covers(request, d)}

StaffWithLeave ==
    IF ApprovedLeaves = {} THEN {}
    ELSE {staff \in 0..(Len(args.staff_data.name) - 1) : ApprovedDays(staff) # {}}

InHorizon(request) ==
    /\ request.status = "Approved"
    /\ \E d \in 0..(args.num_days - 1) : Covers(request, d)

\* the model of lines 119-208 for the call without the requests that do not count
ModelWithout(a) ==
    LET b == [a EXCEPT !.leave_requests = SelectSeq(a.leave_requests, InHorizon)]
        constraints == HardAndSoftConstraints(b, ProcessRequests(b, 1, <<>>).leaves)
                           \cup PrefConstraints(b, 1, {}).constraints
    IN [shifts |-> ShiftKeys(b), constraints |-> constraints,
        objective |-> ObjectiveTerms(constraints)]

FixedToZero ==
    UNION {c.vars : c \in {x \in model.constraints : x.kind = "eq" /\ x.rhs = 0}}

C15_OnlyApprovedInHorizon ==
    /\ (pc = "done" /\ ApprovedLeaves = {} /\ last_error # None
            /\ last_error.msg = "Optimization error")
          => last_error.detail = "KeyError"
    /\ pc \in {"validate", "capacity", "build", "solve", "extract"} =>
          /\ DOMAIN staff_leaves = StaffWithLeave
          /\ \A staff \in StaffWithLeave : staff_leaves[staff] = ApprovedDays(staff)
    /\ ModelBuilt =>
          /\ FixedToZero = {k \in model.shifts : k[1] \in StaffWithLeave
                                                  /\ k[2] \in ApprovedDays(k[1])}
          /\ model = ModelWithout(args)

\* a pending request for B over the whole horizon next to an approved one for A
\* that starts before today and ends after the horizon: only A's days are fixed
C15_Witness ==
    /\ ModelBuilt
    /\ args.leave_requests = MixedRequests
    /\ args.staff_data.name = <<"A", "B">>
    /\ args.num_days = 2
    /\ FixedToZero = {k \in model.shifts : k[1] = 0}

(***************************************************************************)
(* C16: the outcome of a call depends on its arguments only, not on the    *)
(* calls made before on the same instance; two calls with identical inputs *)
(* that both reach solving have the same success flag.                     *)
(* Violated as stated: the solver's status is not a function of the        *)
(* arguments (time limit of line 214, parallel search of line 215), so of  *)
(* two identical calls one can end OPTIMAL with a roster and the other     *)
(* UNKNOWN, or FEASIBLE with nobody assigned, without one.                 *)
(***************************************************************************)
\* the status logged at line 221 in the trail of a call, "" when there is none
StatusLogged(trail) ==
    IF \E i \in 1..Len(trail) : trail[i][1] = "Optimization status"
    THEN trail[CHOOSE i \in 1..Len(trail) : trail[i][1] = "Optimization status"][2]
    ELSE ""

Earlier == {history[i] : i \in 1..Len(history)}

C16_SameSuccessFlag ==
    Returned =>
        \A h \in Earlier :
            (h.args = args /\ StatusLogged(h.debug_info) # ""
                           /\ StatusLogged(debug_info) # "")
                => h.ret.success = ret.success

(***************************************************************************)
(* C16, as it holds: no call depends on the calls made before on the same  *)
(* instance.  A call that reaches solving has built a model holding        *)
(* exactly its own variables, constraints and objective; a call that ends  *)
(* in leave processing, validation or the capacity check ends the same way *)
(* whenever it is repeated; and two calls with identical inputs whose      *)
(* solver runs both end OPTIMAL have the same success flag, the same       *)
(* error, the same objective value and the same Date for the same Day.     *)
(***************************************************************************)
\* the model of lines 119-208 as the arguments alone determine it
ModelOf(a) ==
    LET constraints == HardAndSoftConstraints(a, ProcessRequests(a, 1, <<>>).leaves)
                           \cup PrefConstraints(a, 1, {}).constraints
    IN [shifts |-> ShiftKeys(a), constraints |-> constraints,
        objective |-> ObjectiveTerms(constraints)]

EndedBeforeBuild(error) ==
    /\ error # None
    /\ \/ error.msg \in {"No staff data provided", "Number of days must be positive",
                         "Shifts per day must be positive",
                         "Minimum staff per shift must be positive",
                         "Maximum shifts per week must be positive",
                         "Not enough staff capacity"}
       \/ error.msg = "Optimization error" /\ error.detail # "KeyError"

SameDates(r1, r2) ==
    \A i \in 1..Len(r1.rows), j \in 1..Len(r2.rows) :
        r1.rows[i].Day = r2.rows[j].Day => r1.rows[i].Date = r2.rows[j].Date

C16_CallsIndependent ==
    /\ ModelBuilt => model = ModelOf(args)
    /\ Returned =>
          \A h \in Earlier :
              h.args = args =>
                  /\ EndedBeforeBuild(h.last_error) =>
                        ret = h.ret /\ last_error = h.last_error
                  /\ (StatusLogged(h.debug_info) = "OPTIMAL"
                          /\ StatusLogged(debug_info) = "OPTIMAL") =>
                        /\ ret.success = h.ret.success
                        /\ last_error = h.last_error
                        /\ Objective(model, solver.values)
                               = Objective(h.model, h.solver.values)
                        /\ ret.success => SameDates(ret.roster, h.ret.roster)

\* the same two-staff call made twice, solved to optimality both times, with
\* different staff on the shifts
C16_Witness ==
    /\ Succeeded
    /\ Len(history) = 1
    /\ history[1].args = args
    /\ Len(args.staff_data.name) = 2
    /\ StatusLogged(history[1].debug_info) = "OPTIMAL"
    /\ StatusLogged(debug_info) = "OPTIMAL"
    /\ history[1].ret.roster # ret.roster

(***************************************************************************)
(* C17: the objective has one term per slack variable, weighted 1000 for a *)
(* coverage slack, 500 for a weekly slack, 750 for a rest slack and 10 for *)
(* a preference indicator; the value minimised for an assignment is        *)
(* 1000 x (staff missing over all shifts) + 500 x (shifts above the weekly *)
(* cap) + 750 x (rest periods broken), no preference indicator being set;  *)
(* and an optimal solution is least in the order coverage, then rest, then *)
(* weekly cap: no feasible assignment has fewer violations in one category *)
(* and as few in every category ranked above it.                           *)
(***************************************************************************)
Positive(n) == IF n > 0 THEN n ELSE 0

StaffMissing(sh) ==
    SumSeq([k \in 1..(args.num_days * args.shifts_per_day) |->
        Positive(args.min_staff_per_shift
                 - Cardinality({staff \in 0..(Len(args.staff_data.name) - 1) :
                       sh[<<staff, (k - 1) \div args.shifts_per_day,
                                   (k - 1) % args.shifts_per_day>>] = 1}))])

ShiftsAboveCap(sh) ==
    SumSeq([k \in 1..(Len(args.staff_data.name) * Ceil7(args.num_days)) |->
        Positive(WorkedInBlock(sh, (k - 1) \div Ceil7(args.num_days),
                                   (k - 1) % Ceil7(args.num_days))
                 - args.max_shifts_per_week)])

RestsBroken(sh) ==
    IF args.shifts_per_day < 3 \/ args.num_days < 2 THEN 0
    ELSE SumSeq([k \in 1..(Len(args.staff_data.name) * (args.num_days - 1)) |->
        LET staff == (k - 1) \div (args.num_days - 1)
            d == (k - 1) % (args.num_days - 1)
        IN Positive(sh[<<staff, d, 1>>] + sh[<<staff, d, 2>>]
                    + sh[<<staff, d + 1, 0>>] - 1)])

Violations(sh) == <<StaffMissing(sh), RestsBroken(sh), ShiftsAboveCap(sh)>>

\* u is better than v in the order coverage, rest, weekly cap
RanksBefore(u, v) ==
    \/ u[1] < v[1]
    \/ u[1] = v[1] /\ u[2] < v[2]
    \/ u[1] = v[1] /\ u[2] = v[2] /\ u[3] < v[3]

WeightOf(kind) ==
    IF kind = "min_staff_slack" THEN 1000
    ELSE IF kind = "week_slack" THEN 500
    ELSE IF kind = "rest_slack" THEN 750
    ELSE 10

SolverReturned == pc = "extract"

C17_ObjectiveAndRanking ==
    /\ ModelBuilt =>
          /\ \A t \in model.objective :
                /\ t.slack[1] \in {"min_staff_slack", "week_slack", "rest_slack", "pref"}
                /\ t.coeff = WeightOf(t.slack[1])
          /\ \A c \in model.constraints :
                c.name[1] \in {"min_staff_slack", "week_slack", "rest_slack", "pref"}
                    => Cardinality({t \in model.objective : t.slack = c.name}) = 1
    /\ (SolverReturned /\ SolutionFound(solver.status)) =>
          Objective(model, solver.values)
              = 1000 * StaffMissing(solver.values)
                + 500 * ShiftsAboveCap(solver.values)
                + 750 * RestsBroken(solver.values)
    /\ (SolverReturned /\ solver.status = "OPTIMAL") =>
          \A sh \in FeasibleValues(model) :
              ~RanksBefore(Violations(sh), Violations(solver.values))

\* an optimum that leaves two shifts unstaffed and exceeds the weekly cap twice
\* without breaking a rest period, where feasible assignments break one
C17_Witness ==
    /\ SolverReturned /\ solver.status = "OPTIMAL"
    /\ args.staff_preferences # <<>>
    /\ Violations(solver.values) = <<2, 0, 2>>
    /\ Objective(model, solver.values) = 3000
    /\ \E sh \in FeasibleValues(model) : RestsBroken(sh) > 0

(***************************************************************************)
(* C18: a calculate_roster_metrics call on no roster or on an empty one    *)
(* returns total_shifts = 0, avg_staff_per_shift = 0, coverage = 0,        *)
(* staff_utilization = 0 and preference_satisfaction = 0 and leaves        *)
(* last_error, the debug trail, the model and the solver as they were.     *)
(***************************************************************************)
MetricsCalled == metrics' # metrics \/ roster_df' # roster_df

C18_MetricsOfNothing ==
    [][(MetricsCalled /\ (roster_df' = None \/ roster_df'.rows = <<>>)) =>
          /\ metrics' = [total_shifts |-> 0, avg_staff_per_shift |-> 0,
                         coverage |-> 0, staff_utilization |-> 0,
                         preference_satisfaction |-> 0]
          /\ last_error' = last_error
          /\ debug_info' = debug_info
          /\ model' = model
          /\ solver' = solver]_vars

\* the metrics of an empty table asked for after a call that failed in solving
C18_Witness ==
    /\ Failed /\ solver # None /\ model # None /\ debug_info # <<>>
    /\ last_error # None
    /\ roster_df # None /\ roster_df.rows = <<>>
    /\ metrics # None /\ metrics.total_shifts = 0 /\ metrics.coverage = 0

(***************************************************************************)
(* C19: for a non-empty roster table staff_utilization is                  *)
(* sum(Staff_Count) / rows x 100, which is 100 x avg_staff_per_shift; it   *)
(* is above 100 when every row has at least one staff member and some row  *)
(* more than one; it is fixed by the Staff_Count column alone, whatever    *)
(* the staff table of the call was.                                        *)
(***************************************************************************)
MetricsOfTable ==
    /\ metrics # None /\ roster_df # None /\ roster_df.rows # <<>>
    /\ \A i \in 1..Len(roster_df.rows) : "Staff_Count" \in DOMAIN roster_df.rows[i]

Counts == [i \in 1..Len(roster_df.rows) |-> roster_df.rows[i].Staff_Count]

\* the fractions a and b are the same number
SameNumber(a, b) == a.num * b.den = b.num * a.den

C19_StaffUtilization ==
    MetricsOfTable =>
        /\ metrics.staff_utilization.den # 0
        /\ metrics.staff_utilization.num * Len(Counts)
               = 100 * SumSeq(Counts) * metrics.staff_utilization.den
        /\ SameNumber(metrics.staff_utilization,
                      [num |-> 100 * metrics.avg_staff_per_shift.num,
                       den |-> metrics.avg_staff_per_shift.den])
        /\ ((\A i \in 1..Len(Counts) : Counts[i] >= 1)
                /\ (\E i \in 1..Len(Counts) : Counts[i] > 1))
              => metrics.staff_utilization.num > 100 * metrics.staff_utilization.den

\* the roster of a successful call with both staff on one shift: 200
C19_Witness ==
    /\ Succeeded /\ roster_df = ret.roster /\ metrics # None
    /\ Len(args.staff_data.name) = 2
    /\ \E i \in 1..Len(roster_df.rows) : roster_df.rows[i].Staff_Count = 2
    /\ metrics.staff_utilization.num = 200 * metrics.staff_utilization.den

(***************************************************************************)
(* C20: for a non-empty roster table total_shifts is the number of rows    *)
(* and coverage is 100 x (rows with Staff_Count > 0) / rows; it is exactly *)
(* 100 for the roster a successful call returned and below 100 for a table *)
(* with a row of count zero.                                               *)
(***************************************************************************)
StaffedRows == Cardinality({i \in 1..Len(Counts) : Counts[i] > 0})

C20_TotalAndCoverage ==
    MetricsOfTable =>
        /\ metrics.total_shifts = Len(roster_df.rows)
        /\ metrics.coverage.den # 0
        /\ metrics.coverage.num * Len(Counts) = 100 * StaffedRows * metrics.coverage.den
        /\ (Succeeded /\ roster_df = ret.roster)
              => metrics.coverage.num = 100 * metrics.coverage.den
        /\ (\E i \in 1..Len(Counts) : Counts[i] = 0)
              => metrics.coverage.num < 100 * metrics.coverage.den

\* the two-row roster of a successful call
C20_Witness ==
    /\ Succeeded /\ roster_df = ret.roster /\ metrics # None
    /\ metrics.total_shifts = 2
    /\ metrics.coverage.num = 100 * metrics.coverage.den

(***************************************************************************)
(* C21: get_last_error returns last_error whenever one is set; with no     *)
(* last_error it returns the debug trail under the heading "Optimization   *)
(* failed with the following issues" when the trail is not empty, and      *)
(* "Unknown error occurred" when it is.  After every failed call it        *)
(* returns the specific error of that call, never the bare trail and never *)
(* "Unknown error occurred".                                               *)
(***************************************************************************)
Reported == get_last_error(last_error, debug_info)

C21_LastErrorReported ==
    /\ last_error # None => Reported = last_error
    /\ (last_error = None /\ debug_info # <<>>) => Reported = TrailReport(debug_info)
    /\ (last_error = None /\ debug_info = <<>>) => Reported = UnknownError
    /\ Failed =>
          /\ last_error # None
          /\ Reported = last_error
          /\ Reported # TrailReport(debug_info)
          /\ Reported # UnknownError

\* a capacity failure: the trail holds the five capacity lines, and the
\* capacity error is what is reported
C21_Witness ==
    /\ Failed
    /\ Len(debug_info) = 5
    /\ Reported = CapacityError(args)

(***************************************************************************)
(* C22: with shifts_per_day >= 3, in every solution the solver accepts, a  *)
(* staff member who works slot 1 or slot 2 on day d < num_days - 1 and     *)
(* slot 0 on day d + 1 has the rest slack of (staff, d) equal to 1, and    *)
(* the objective charges 750 for it; the slack always suffices, that is,   *)
(* every assignment with at most one shift a day satisfies every rest      *)
(* constraint for some value of its slack.  With shifts_per_day < 3 the    *)
(* model holds no rest constraint and the objective no rest term.          *)
(***************************************************************************)
RestConstraintsOf(m) == {c \in m.constraints : c.name[1] = "rest_slack"}

RestTermsOf(m) == {t \in m.objective : t.slack[1] = "rest_slack"}

LateThenEarly(sh, staff, d) ==
    /\ sh[<<staff, d, 1>>] = 1 \/ sh[<<staff, d, 2>>] = 1
    /\ sh[<<staff, d + 1, 0>>] = 1

OneShiftADay(m, sh) ==
    \A c \in {x \in m.constraints : x.name[1] = "daily"} : Satisfiable(c, sh)

C22_RestSlack ==
    /\ (pc = "extract" /\ SolutionFound(solver.status) /\ args.shifts_per_day >= 3) =>
          \A staff \in Staffs(args) : \A d \in 0..(args.num_days - 2) :
              LateThenEarly(solver.values, staff, d) =>
                  \E c \in RestConstraintsOf(model) :
                      /\ c.name = <<"rest_slack", staff, d>>
                      /\ \A slack \in 0..c.slack_hi :
                            Holds(c, solver.values, slack) <=> slack = 1
                      /\ [slack |-> c.name, coeff |-> 750] \in model.objective
                      /\ Objective(model, solver.values) >= 750
    /\ (pc = "solve" /\ args.shifts_per_day >= 3) =>
          /\ {c.name : c \in RestConstraintsOf(model)}
                = {<<"rest_slack", staff, d>> :
                      staff \in Staffs(args), d \in 0..(args.num_days - 2)}
          /\ \A sh \in Candidates(model) :
                OneShiftADay(model, sh) =>
                    \A c \in RestConstraintsOf(model) : Satisfiable(c, sh)
    /\ (pc = "solve" /\ args.shifts_per_day < 3) =>
          RestConstraintsOf(model) = {} /\ RestTermsOf(model) = {}

\* an accepted solution in which A works the night of day 0 and the morning
\* of day 1
C22_Witness ==
    /\ pc = "extract" /\ SolutionFound(solver.status)
    /\ args.shifts_per_day >= 3 /\ args.num_days >= 2
    /\ solver.values[<<0, 0, 2>>] = 1
    /\ solver.values[<<0, 1, 0>>] = 1

(***************************************************************************)
(* C23: when a call passes the pre-checks and some assignment has zero     *)
(* total penalty, every optimal solution staffs every (day, shift) with at *)
(* least min_staff_per_shift staff, and the call that returns it succeeds  *)
(* with exactly num_days * shifts_per_day rows, each with Staff_Count >=   *)
(* min_staff_per_shift.  Some assignment has zero penalty exactly when the *)
(* optimal solutions have zero penalty, which is how a returned solution   *)
(* shows it.  The scenario of 14 staff without leave, 7 days,              *)
(* 3 shifts a day, min 2 and max 5 is such an input: it passes the         *)
(* pre-checks and the roster in which each shift type has its own four     *)
(* staff, two of them a day in turn, has zero penalty and gives 21 rows.   *)
(***************************************************************************)
\* every constraint holds with its slack or indicator at 0, so that every
\* term of the objective is 0
ZeroPenalty(m, sh) == \A c \in m.constraints : Holds(c, sh, 0)

HasZeroPenalty(m) == \E sh \in Candidates(m) : ZeroPenalty(m, sh)

StaffedBy(sh, d, shift) ==
    Cardinality({k \in DOMAIN sh : k[2] = d /\ k[3] = shift /\ sh[k] = 1})

ScenarioCall ==
    Call(DataFrame(<<"S01", "S02", "S03", "S04", "S05", "S06", "S07", "S08", "S09", "S10", "S11", "S12", "S13", "S14">>), 7, 3, 2, 5, <<>>, <<>>)

\* shift type t is worked by staff 4t .. 4t + 3, two of them each day in turn
ScenarioRoster ==
    [k \in ShiftKeys(ScenarioCall) |->
        IF k[1] \in {4 * k[3] + ((2 * k[2]) % 4), 4 * k[3] + ((2 * k[2] + 1) % 4)}
        THEN 1 ELSE 0]

ScenarioRows == RosterData(ScenarioCall, <<>>, ScenarioRoster)

ScenarioIsPenaltyFree ==
    /\ ValidationError(ScenarioCall) = ""
    /\ ~CapacityExceeded(ScenarioCall)
    /\ ZeroPenalty(ModelOf(ScenarioCall), ScenarioRoster)
    /\ Len(ScenarioRows) = 21
    /\ \A i \in 1..21 : ScenarioRows[i].Staff_Count >= 2

C23_ZeroPenaltyFullyStaffed ==
    /\ ScenarioIsPenaltyFree
    /\ pc = "solve" =>
          LET optimal == OptimalValues(model)
              zero == HasZeroPenalty(model)
          IN \A sh \in optimal :
                /\ zero <=> ZeroPenalty(model, sh)
                /\ zero <=> Objective(model, sh) = 0
                /\ zero =>
                      /\ \A d \in Days(args), shift \in Shifts(args) :
                            StaffedBy(sh, d, shift) >= args.min_staff_per_shift
                      /\ Len(RosterData(args, staff_leaves, sh))
                            = args.num_days * args.shifts_per_day
    /\ (SolverFinished /\ solver.status = "OPTIMAL"
            /\ ZeroPenalty(model, solver.values)) =>
          /\ Succeeded
          /\ Len(Rows) = args.num_days * args.shifts_per_day
          /\ \A i \in 1..Len(Rows) : Rows[i].Staff_Count >= args.min_staff_per_shift

\* two staff, both needed on each of two days
C23_Witness ==
    /\ Succeeded /\ solver.status = "OPTIMAL"
    /\ ZeroPenalty(model, solver.values)
    /\ args.min_staff_per_shift = 2 /\ args.num_days = 2
    /\ Len(Rows) = 2

(***************************************************************************)
(* C24: a call that fails a pre-check (no staff data, a non-positive       *)
(* parameter, or capacity) builds no model and no solver: when it returns, *)
(* and at every step before, the model and solver fields hold what they    *)
(* held before the call, the values an earlier call left or None on a new  *)
(* instance; no variable or constraint has been created.                   *)
(***************************************************************************)
PreCheckErrors ==
    {"No staff data provided", "Number of days must be positive",
     "Shifts per day must be positive", "Minimum staff per shift must be positive",
     "Maximum shifts per week must be positive", "Not enough staff capacity"}

PreCheckFailed == Failed /\ last_error.msg \in PreCheckErrors

ModelBefore == IF history = <<>> THEN None ELSE history[Len(history)].model

SolverBefore == IF history = <<>> THEN None ELSE history[Len(history)].solver

C24_PreCheckBuildsNothing ==
    (PreCheckFailed \/ pc \in {"leaves", "validate", "capacity", "build"}) =>
        /\ model = ModelBefore
        /\ solver = SolverBefore

\* a capacity failure after a call that built a model and solved it
C24_Witness ==
    /\ PreCheckFailed /\ last_error.msg = "Not enough staff capacity"
    /\ Len(history) = 1 /\ history[1].ret.success
    /\ model # None /\ model = history[1].model /\ model # ModelOf(args)
    /\ solver = history[1].solver /\ solver.status = "OPTIMAL"

(***************************************************************************)
(* C25: in every model that is built to the end (the pre-checks passed and *)
(* every preferred slot exists), the schedule that assigns nobody to       *)
(* anything satisfies every constraint, with each coverage slack at        *)
(* min_staff_per_shift and every other slack and indicator at 0.  So the   *)
(* model is never infeasible, and the error "Could not find a feasible     *)
(* solution" never carries the status INFEASIBLE.                          *)
(***************************************************************************)
EmptySchedule(m) == [k \in m.shifts |-> 0]

EmptyScheduleSlack(a, c) ==
    IF c.name[1] = "min_staff_slack" THEN a.min_staff_per_shift ELSE 0

NoFeasibleSolution ==
    Failed /\ last_error.msg = "Could not find a feasible solution"

C25_EmptyScheduleFeasible ==
    /\ (pc = "solve" \/ NoFeasibleSolution) =>
          /\ \A c \in model.constraints :
                /\ EmptyScheduleSlack(args, c) \in 0..c.slack_hi
                /\ Holds(c, EmptySchedule(model), EmptyScheduleSlack(args, c))
          /\ EmptySchedule(model) \in FeasibleValues(model)
    /\ pc = "extract" => solver.status # "INFEASIBLE"
    /\ NoFeasibleSolution => last_error.status # "INFEASIBLE"

\* the solver gave up on a model with leave and preference constraints
C25_Witness ==
    /\ NoFeasibleSolution
    /\ last_error.status = "UNKNOWN"
    /\ staff_leaves # <<>>
    /\ \E c \in model.constraints : c.kind = "imp"
    /\ \E c \in model.constraints : c.kind = "eq"

(***************************************************************************)
(* C26: for a call that passes the pre-checks, the model has an optimal    *)
(* solution without any assignment if and only if every staff member is on *)
(* leave (in the leave table the model is built from) on every day of the  *)
(* horizon, and the call that returns such a solution fails with "No valid *)
(* assignments found in the solution"; when some staff member is free on   *)
(* some day, every optimal solution assigns somebody and the call that     *)
(* returns it succeeds with at least one row.                              *)
(***************************************************************************)
AllOnLeave ==
    \A staff \in Staffs(args), d \in Days(args) : IsOnLeave(staff_leaves, staff, d)

\* the empty schedule is feasible and no feasible schedule costs less
EmptyScheduleOptimal(m) ==
    /\ Feasible(m, EmptySchedule(m))
    /\ ~\E sh \in FeasibleValues(m) :
            Objective(m, sh) < Objective(m, EmptySchedule(m))

C26_EmptyOptimumIffAllOnLeave ==
    /\ pc = "solve" =>
          (AllOnLeave <=> EmptyScheduleOptimal(model))
    /\ (SolverFinished /\ solver.status = "OPTIMAL") =>
          /\ NobodyAssigned <=> AllOnLeave
          /\ AllOnLeave =>
                /\ ret = Failure
                /\ last_error = [msg |-> "No valid assignments found in the solution"]
          /\ ~AllOnLeave => Succeeded /\ Len(Rows) >= 1

\* both staff on approved leave for the whole horizon of two days
C26_Witness ==
    /\ SolverFinished /\ solver.status = "OPTIMAL"
    /\ AllOnLeave /\ NobodyAssigned
    /\ Len(args.staff_data.name) = 2 /\ args.num_days = 2
    /\ last_error = [msg |-> "No valid assignments found in the solution"]

(***************************************************************************)
(* C27: in every optimal solution every preference indicator is false: an  *)
(* indicator may always be false, and setting one adds 10 to the objective *)
(* and nothing else.  So when every preferred slot exists (the model is    *)
(* built to the end), the optimal objective value and the set of optimal   *)
(* shift assignments are those of the same call without preferences.       *)
(***************************************************************************)
Indicators(m) == {c \in m.constraints : c.kind = "imp"}

\* the values the indicators can take next to the shift values sh
IndicatorValues(m, sh) ==
    {ind \in [{c.name : c \in Indicators(m)} -> {0, 1}] :
        \A c \in Indicators(m) : Holds(c, sh, ind[c.name])}

RECURSIVE IndicatorCost(_, _)
IndicatorCost(cs, ind) ==
    IF cs = {} THEN 0
    ELSE LET c == CHOOSE x \in cs : TRUE
         IN Coeff(c) * ind[c.name] + IndicatorCost(cs \ {c}, ind)

\* the objective of lines 205-208 for shift values sh and indicator values ind,
\* the other slacks at their least
FullObjective(m, sh, ind) ==
    SumTerms({t \in m.objective : t.slack[1] # "pref"}, m, sh)
        + IndicatorCost(Indicators(m), ind)

WithoutPreferences(a) == ModelOf([a EXCEPT !.staff_preferences = <<>>])

C27_IndicatorsFalse ==
    /\ (pc = "solve" /\ args.staff_preferences # <<>>) =>
          LET optimal == OptimalValues(model)
              best == Objective(model, CHOOSE sh \in optimal : TRUE)
              bare == WithoutPreferences(args)
              barely == OptimalValues(bare)
          IN /\ \A sh \in FeasibleValues(model) : \A ind \in IndicatorValues(model, sh) :
                    /\ FullObjective(model, sh, ind) >= best
                    /\ FullObjective(model, sh, ind) = best =>
                          \A c \in Indicators(model) : ind[c.name] = 0
             /\ optimal = barely
             /\ \A sh \in barely : Objective(bare, sh) = best
    /\ (pc = "extract" /\ solver.status = "OPTIMAL" /\ args.staff_preferences # <<>>) =>
          Objective(model, solver.values)
              = Objective(WithoutPreferences(args), solver.values)

\* an optimum that gives the preferred shift on one day and not on the other
C27_Witness ==
    /\ pc = "extract" /\ solver.status = "OPTIMAL"
    /\ \E c \in Indicators(model) : Assigned(c.vars, solver.values) = 1
    /\ \E c \in Indicators(model) : Assigned(c.vars, solver.values) = 0

(***************************************************************************)
(* C28: a call with a non-empty staff table and an approved leave request  *)
(* whose staff_member is the name of no staff row returns (null, false)    *)
(* with an "Optimization error" message, and it does so in leave           *)
(* processing: nothing is validated, logged, built or solved, whether or   *)
(* not the other arguments admit a roster.  The request is not ignored.    *)
(***************************************************************************)
NamesNobody(request) ==
    \A i \in 1..Len(args.staff_data.name) : args.staff_data.name[i] # request.staff_member

UnknownStaffOnLeave ==
    /\ args # None
    /\ args.staff_data # None /\ Len(args.staff_data.name) > 0
    /\ \E request \in ApprovedLeaves : NamesNobody(request)

C28_UnknownStaffOnLeave ==
    UnknownStaffOnLeave =>
        /\ pc \in {"leaves", "done"}
        /\ model = None /\ solver = None
        /\ Returned =>
              /\ ret = Failure
              /\ last_error # None /\ last_error.msg = "Optimization error"
              /\ debug_info = <<<<"Exception details", last_error.detail>>>>

\* the request names B, the table holds A only, and the other arguments pass
\* every pre-check
C28_Witness ==
    /\ Returned /\ UnknownStaffOnLeave
    /\ ValidationError(args) = "" /\ ~CapacityExceeded(args)
    /\ last_error = OptimizationError("IndexError")

(***************************************************************************)
(* C29: after any sequence of calls on one instance, last_error is unset   *)
(* exactly when the most recent call returned success, and the debug trail *)
(* holds only what the most recent call logged.  Both are cleared when a   *)
(* call starts: in leave processing, the first step of a call, there is no *)
(* error and no trail, whatever the call before left; and the trail of a   *)
(* call holds each kind of entry at most once, its capacity lines being    *)
(* those of this call's arguments and its status that of this call's       *)
(* solve.                                                                  *)
(***************************************************************************)
CapacityKinds == {CapacityLog(args)[i][1] : i \in 1..5}

TrailOfThisCall ==
    /\ \A i, j \in 1..Len(debug_info) :
          debug_info[i][1] = debug_info[j][1] => i = j
    /\ (\E i \in 1..Len(debug_info) : debug_info[i][1] \in CapacityKinds) =>
          /\ Len(debug_info) >= 5
          /\ SubSeq(debug_info, 1, 5) = CapacityLog(args)
    /\ \A i \in 1..Len(debug_info) :
          /\ debug_info[i][1] = "Optimization status" => debug_info[i][2] = solver.status
          /\ debug_info[i][1] = "Exception details" =>
                last_error = OptimizationError(debug_info[i][2])
          /\ debug_info[i][1] = "Total assignments made" =>
                debug_info[i][2] = TotalAssignments(args, staff_leaves, solver.values)

C29_ErrorAndTrailOfLastCall ==
    /\ pc = "leaves" => last_error = None /\ debug_info = <<>>
    /\ pc # "idle" => TrailOfThisCall
    /\ Returned => (last_error = None <=> ret.success)
    /\ \A h \in Earlier : h.last_error = None <=> h.ret.success

\* a call that succeeds after one that failed the capacity check with other
\* arguments: no error is left, and the capacity lines are the new ones
C29_Witness ==
    /\ Succeeded /\ last_error = None
    /\ Len(history) = 1
    /\ history[1].last_error # None
    /\ history[1].last_error.msg = "Not enough staff capacity"
    /\ Len(history[1].debug_info) = 5
    /\ Len(debug_info) = 8
    /\ SubSeq(debug_info, 1, 5) # history[1].debug_info

(***************************************************************************)
(* C30: the staff count N = (total_slots_needed // max_shifts_per_week) + 1 *)
(* that the capacity error gives as "need at least N" is the least number  *)
(* of staff that passes the capacity check with the other arguments        *)
(* unchanged: N * max_shifts_per_week * ceil(num_days / 7) >=              *)
(* total_slots_needed, and no smaller n does.                              *)
(* Violated: N leaves the number of weeks out and adds 1 also when the     *)
(* division is exact, so fewer than N staff can pass the check: 2 slots at *)
(* 1 shift a week give N = 3 while 2 staff pass.                           *)
(***************************************************************************)
PassesWith(n) ==
    n * args.max_shifts_per_week * Ceil7(args.num_days)
        >= args.num_days * args.shifts_per_day * args.min_staff_per_shift

NeedAtLeast == last_error.suggestions[1][2]

C30_SuggestedStaffIsLeast ==
    (Returned /\ IsCapacityError) =>
        /\ PassesWith(NeedAtLeast)
        /\ \A n \in 0..(NeedAtLeast - 1) : ~PassesWith(n)

====
